---------------------------- MODULE Spec2Model ----------------------------
(***************************************************************************)
(* A model of the jive5ab KATCP proxy (scripts/jive5ab_katcp_proxy.py):    *)
(* the control channel client jive_cmd, the reply parsers, the five        *)
(* sensors, the background poll loop and the request handlers, running as  *)
(* asyncio tasks that interleave at their await points.                    *)
(*                                                                         *)
(* Python str values (replies, sensor values, messages) are sequences of   *)
(* one-character strings, so that parsing is computed character by         *)
(* character as the regular expressions of the source do.                  *)
(***************************************************************************)
EXTENDS Naturals, Integers, Sequences, FiniteSets, TLC

(***************************************************************************)
(* Bounds of the model.                                                    *)
(***************************************************************************)
\* Number of request handlers that may run concurrently with the poll loop.
NReq == 1

(***************************************************************************)
(* Text.                                                                   *)
(***************************************************************************)
Empty == << >>

DigitChars == {"0", "1", "2", "3", "4", "5", "6", "7", "8", "9"}

LowerChars ==
    {"a", "b", "c", "d", "e", "f", "g", "h", "i", "j", "k", "l", "m",
     "n", "o", "p", "q", "r", "s", "t", "u", "v", "w", "x", "y", "z"}

UpperChars ==
    {"A", "B", "C", "D", "E", "F", "G", "H", "I", "J", "K", "L", "M",
     "N", "O", "P", "Q", "R", "S", "T", "U", "V", "W", "X", "Y", "Z"}

\* \s of the re module, on ASCII text
SpaceChars == {" ", "\t", "\n", "\r", "\f"}

\* \w of the re module, on ASCII text; the class [A-Za-z0-9_] is the same set
WordChars == LowerChars \cup UpperChars \cup DigitChars \cup {"_"}

\* s[i] exists and is in class C
At(s, i, C) == i >= 1 /\ i <= Len(s) /\ s[i] \in C

\* the literal lit stands in s at index i
HasAt(s, i, lit) ==
    /\ i >= 1
    /\ i + Len(lit) - 1 <= Len(s)
    /\ SubSeq(s, i, i + Len(lit) - 1) = lit

\* a greedy repetition C* started at index i ends just before the index returned
Run(s, i, C) ==
    CHOOSE j \in i..(Len(s) + 1) :
        /\ \A k \in i..(j - 1) : s[k] \in C
        /\ (j = Len(s) + 1 \/ s[j] \notin C)

\* str.startswith
StartsWith(s, prefix) == HasAt(s, 1, prefix)

\* str.strip
Strip(s) ==
    IF \A k \in 1..Len(s) : s[k] \in SpaceChars
    THEN Empty
    ELSE LET lo == CHOOSE i \in 1..Len(s) :
                       s[i] \notin SpaceChars /\ \A k \in 1..(i - 1) : s[k] \in SpaceChars
             hi == CHOOSE i \in 1..Len(s) :
                       s[i] \notin SpaceChars /\ \A k \in (i + 1)..Len(s) : s[k] \in SpaceChars
         IN  SubSeq(s, lo, hi)

Unknown == <<"u", "n", "k", "n", "o", "w", "n">>

MsgBadProtocol ==
    <<"p", "r", "o", "t", "o", "c", "o", "l", " ", "m", "u", "s", "t",
      " ", "b", "e", " ", "u", "d", "p", " ", "o", "r", " ", "u", "d",
      "p", "s">>
MsgInvalidPort ==
    <<"i", "n", "v", "a", "l", "i", "d", " ", "p", "o", "r", "t">>
MsgNoDisk ==
    <<"p", "r", "o", "v", "i", "d", "e", " ", "a", "t", " ", "l", "e",
      "a", "s", "t", " ", "o", "n", "e", " ", "d", "i", "s", "k", " ",
      "p", "a", "t", "h">>
MsgNoScan ==
    <<"s", "c", "a", "n", "_", "n", "a", "m", "e", " ", "r", "e", "q",
      "u", "i", "r", "e", "d">>
MsgOpenFailed ==
    <<"o", "p", "e", "n", " ", "f", "a", "i", "l", "e", "d">>
MsgInvalidLiteral ==
    <<"i", "n", "v", "a", "l", "i", "d", " ", "l", "i", "t", "e", "r",
      "a", "l", " ", "f", "o", "r", " ", "i", "n", "t", "(", ")", " ",
      "w", "i", "t", "h", " ", "b", "a", "s", "e", " ", "1", "0", ":",
      " ">>
OSErrorText ==
    <<"[", "E", "r", "r", "n", "o", " ", "1", "1", "1", "]", " ", "C",
      "o", "n", "n", "e", "c", "t", " ", "c", "a", "l", "l", " ", "f",
      "a", "i", "l", "e", "d">>
WordStatus ==
    <<"s", "t", "a", "t", "u", "s">>
WordNetProtocol ==
    <<"n", "e", "t", "_", "p", "r", "o", "t", "o", "c", "o", "l">>
WordNetPort ==
    <<"n", "e", "t", "_", "p", "o", "r", "t">>
WordRecord ==
    <<"r", "e", "c", "o", "r", "d">>
WordNet2file ==
    <<"n", "e", "t", "2", "f", "i", "l", "e">>
WordSetDisks ==
    <<"s", "e", "t", "_", "d", "i", "s", "k", "s">>
TxtUdp ==
    <<"u", "d", "p">>
TxtUdps ==
    <<"u", "d", "p", "s">>
TxtUDPS ==
    <<"U", "D", "P", "S">>
TxtBogus ==
    <<"b", "o", "g", "u", "s">>
TxtPort ==
    <<"5", "0", "0", "0", "0">>
TxtMcastPort ==
    <<"2", "3", "9", ".", "1", ".", "2", ".", "3", "@", "5", "0", "0",
      "0", "0">>
TxtAbc ==
    <<"a", "b", "c">>
TxtBadMcast ==
    <<"2", "3", "9", ".", "1", ".", "2", ".", "3", "@", "x">>
TxtFour ==
    <<" ", "4">>
TxtBufSize ==
    <<"3", "3", "5", "5", "4", "4", "3", "2">>
TxtDisk ==
    <<"/", "m", "n", "t", "/", "d", "i", "s", "k", "0">>
TxtScan ==
    <<"s", "c", "a", "n", "1">>
TxtPath ==
    <<"/", "m", "n", "t", "/", "d", "i", "s", "k", "0", "/", "t", "e",
      "s", "t", "s", "c", "a", "n", "/", "t", "e", "s", "t", "s", "c",
      "a", "n", ".", "v", "d", "i", "f">>
TxtActive ==
    <<"a", "c", "t", "i", "v", "e">>
TxtOn ==
    <<"o", "n">>

\* the head of a reply to the query <word>?
LitStatus == <<"!">> \o WordStatus \o <<"?">>
LitNetProtocol == <<"!">> \o WordNetProtocol \o <<"?">>
LitNetPort == <<"!">> \o WordNetPort \o <<"?">>
LitRecord == <<"!">> \o WordRecord \o <<"?">>
LitNet2file == <<"!">> \o WordNet2file \o <<"?">>
\* "!net2file = 0"
LitNet2fileOk == <<"!">> \o WordNet2file \o <<" ", "=", " ", "0">>

(***************************************************************************)
(* The reply parsers.  Each XMatch(s, p) is the attempt of re.match at     *)
(* index p; re.search takes the leftmost index at which it succeeds.       *)
(***************************************************************************)
NoMatch == [ok |-> FALSE, g1 |-> Empty, g2 |-> Empty]

\* the common head  <lit>\s+\d+\s:\s  ; the index after it, or 0
HeadMatch(s, p, lit) ==
    LET a == p + Len(lit)
        b == Run(s, a, SpaceChars)
        c == Run(s, b, DigitChars)
    IN  IF /\ HasAt(s, p, lit)
           /\ b > a
           /\ c > b
           /\ At(s, c, SpaceChars)
           /\ At(s, c + 1, {":"})
           /\ At(s, c + 2, SpaceChars)
        THEN c + 3
        ELSE 0

\* mutant: the second group takes one digit, (\d) for (\d+)
TwoFieldMatch_OneDigit(s, p, lit) ==
    LET d == HeadMatch(s, p, lit)
        e == Run(s, d, WordChars)
        f == e + 3
    IN  IF /\ d > 0
           /\ e > d
           /\ At(s, e, SpaceChars)
           /\ At(s, e + 1, {":"})
           /\ At(s, e + 2, SpaceChars)
           /\ At(s, f, DigitChars)
        THEN [ok |-> TRUE, g1 |-> SubSeq(s, d, e - 1), g2 |-> SubSeq(s, f, f)]
        ELSE NoMatch

\* <lit>\s+\d+\s:\s(\w+)\s:\s(\d+)
TwoFieldMatch(s, p, lit) ==
    LET d == HeadMatch(s, p, lit)
        e == Run(s, d, WordChars)
        f == e + 3
        g == Run(s, f, DigitChars)
    IN  IF /\ d > 0
           /\ e > d
           /\ At(s, e, SpaceChars)
           /\ At(s, e + 1, {":"})
           /\ At(s, e + 2, SpaceChars)
           /\ g > f
        THEN [ok |-> TRUE, g1 |-> SubSeq(s, d, e - 1), g2 |-> SubSeq(s, f, g - 1)]
        ELSE NoMatch

\* !net_protocol\?\s+\d+\s:\s([A-Za-z0-9_]+)
ProtocolMatch(s, p) ==
    LET d == HeadMatch(s, p, LitNetProtocol)
        e == Run(s, d, WordChars)
    IN  IF d > 0 /\ e > d
        THEN [ok |-> TRUE, g1 |-> SubSeq(s, d, e - 1), g2 |-> Empty]
        ELSE NoMatch

\* !net_port\?\s+\d+\s:\s(.+?)\s;   the lazy group takes the shortest text
\* without a newline that is followed by a space and a semicolon
PortMatch(s, p) ==
    LET d == HeadMatch(s, p, LitNetPort)
        Ends == {e \in (d + 1)..Len(s) :
                    /\ \A k \in d..(e - 1) : s[k] # "\n"
                    /\ At(s, e, SpaceChars)
                    /\ At(s, e + 1, {";"})}
    IN  IF d > 0 /\ Ends # {}
        THEN LET e == CHOOSE x \in Ends : \A y \in Ends : x <= y
             IN  [ok |-> TRUE, g1 |-> SubSeq(s, d, e - 1), g2 |-> Empty]
        ELSE NoMatch

StatusMatch(s, p) == TwoFieldMatch(s, p, LitStatus)
RecordMatch(s, p) == TwoFieldMatch(s, p, LitRecord)
Net2fileMatch(s, p) == TwoFieldMatch(s, p, LitNet2file)

\* re.search returns the match at the leftmost index where the pattern matches
Leftmost(Hits) == CHOOSE p \in Hits : \A q \in Hits : p <= q

parse_status(reply) ==
    LET Hits == {p \in 1..Len(reply) : StatusMatch(reply, p).ok}
    IN  IF Hits = {} THEN Unknown ELSE StatusMatch(reply, Leftmost(Hits)).g1

parse_protocol(reply) ==
    LET Hits == {p \in 1..Len(reply) : ProtocolMatch(reply, p).ok}
    IN  IF Hits = {} THEN Unknown ELSE ProtocolMatch(reply, Leftmost(Hits)).g1

parse_port(reply) ==
    LET Hits == {p \in 1..Len(reply) : PortMatch(reply, p).ok}
    IN  IF Hits = {} THEN Unknown ELSE Strip(PortMatch(reply, Leftmost(Hits)).g1)

\* the value of a decimal digit
DigitValue(c) == CHOOSE k \in 0..9 : <<"0", "1", "2", "3", "4", "5", "6", "7", "8", "9">>[k + 1] = c

RECURSIVE TextToInt(_)
\* int(s) of a text of decimal digits
TextToInt(s) ==
    IF Len(s) = 0
    THEN 0
    ELSE 10 * TextToInt(SubSeq(s, 1, Len(s) - 1)) + DigitValue(s[Len(s)])

\* parse_net2file of the archived concept (archive/concept/aiokatcp_jive5ab.py):
\* the state and the byte count of a net2file? report, or ("unknown", 0)
parse_net2file(reply) ==
    LET Hits == {p \in 1..Len(reply) : Net2fileMatch(reply, p).ok}
    IN  IF Hits = {}
        THEN <<Unknown, 0>>
        ELSE <<Net2fileMatch(reply, Leftmost(Hits)).g1,
               TextToInt(Net2fileMatch(reply, Leftmost(Hits)).g2)>>

(***************************************************************************)
(* Argument validation of the request handlers.                            *)
(***************************************************************************)
UpperSeq ==
    <<"A", "B", "C", "D", "E", "F", "G", "H", "I", "J", "K", "L", "M",
      "N", "O", "P", "Q", "R", "S", "T", "U", "V", "W", "X", "Y", "Z">>
LowerSeq ==
    <<"a", "b", "c", "d", "e", "f", "g", "h", "i", "j", "k", "l", "m",
      "n", "o", "p", "q", "r", "s", "t", "u", "v", "w", "x", "y", "z">>

\* str.lower
Lower(s) ==
    [i \in 1..Len(s) |->
        IF s[i] \in UpperChars
        THEN LowerSeq[CHOOSE k \in 1..26 : UpperSeq[k] = s[i]]
        ELSE s[i]]

\* int(s) does not raise ValueError: surrounding whitespace, an optional
\* sign, then digits that single underscores may separate
IsIntText(s) ==
    LET t == Strip(s)
        b == IF Len(t) > 0 /\ t[1] \in {"+", "-"} THEN Tail(t) ELSE t
    IN  /\ Len(b) > 0
        /\ \A k \in 1..Len(b) : b[k] \in DigitChars \cup {"_"}
        /\ b[1] \in DigitChars
        /\ b[Len(b)] \in DigitChars
        /\ \A k \in 1..(Len(b) - 1) : ~(b[k] = "_" /\ b[k + 1] = "_")

\* str(err) of the ValueError int(s) raises
ValueErrorText(s) == MsgInvalidLiteral \o <<"'">> \o s \o <<"'">>

\* "@" in s
HasAtSign(s) == \E k \in 1..Len(s) : s[k] = "@"

\* s.split("@", 1)[1]
AfterAtSign(s) ==
    LET k == CHOOSE i \in 1..Len(s) : s[i] = "@" /\ \A j \in 1..(i - 1) : s[j] # "@"
    IN  SubSeq(s, k + 1, Len(s))

\* What a handler does next: issue a command of its own, run _poll_once,
\* or return an outcome.
DoCmd(c) == [next |-> "cmd", cmd |-> c, status |-> "none", msg |-> Empty]
DoRefresh == [next |-> "refresh", cmd |-> "status?", status |-> "none", msg |-> Empty]
DoReturn(st, m) == [next |-> "return", cmd |-> "none", status |-> st, msg |-> m]

\* request_set_protocol up to its first await
ValidateSetProtocol(proto, rcv, snd, threads) ==
    LET proto_l == Lower(proto)
    IN  IF proto_l \notin {TxtUdp, TxtUdps}
        THEN DoReturn("fail", MsgBadProtocol)
        ELSE IF proto_l = TxtUdps /\ ~IsIntText(rcv)
        THEN DoReturn("fail", ValueErrorText(rcv))
        ELSE IF proto_l = TxtUdps /\ ~IsIntText(snd)
        THEN DoReturn("fail", ValueErrorText(snd))
        ELSE IF proto_l = TxtUdps /\ ~IsIntText(threads)
        THEN DoReturn("fail", ValueErrorText(threads))
        ELSE DoCmd("net_protocol =")

\* mutant: the port after the "@" is not checked
ValidateSetPort_NoPortCheck(destination) ==
    IF HasAtSign(destination) \/ IsIntText(destination)
    THEN DoCmd("net_port =")
    ELSE DoReturn("fail", MsgInvalidPort)

\* mutant: only a plain integer is taken for a destination
ValidateSetPort_WholeInt(destination) ==
    IF IsIntText(destination)
    THEN DoCmd("net_port =")
    ELSE DoReturn("fail", MsgInvalidPort)

\* request_set_port up to its first await
ValidateSetPort(destination) ==
    IF HasAtSign(destination)
    THEN IF IsIntText(AfterAtSign(destination))
         THEN DoCmd("net_port =")
         ELSE DoReturn("fail", MsgInvalidPort)
    ELSE IF IsIntText(destination)
         THEN DoCmd("net_port =")
         ELSE DoReturn("fail", MsgInvalidPort)

\* request_set_disks up to its first await
ValidateSetDisks(paths) ==
    IF Len(paths) = 0 THEN DoReturn("fail", MsgNoDisk) ELSE DoCmd("set_disks =")

\* request_record_start up to its first await
ValidateRecordStart(scan_name) ==
    IF Len(scan_name) = 0 THEN DoReturn("fail", MsgNoScan) ELSE DoCmd("record = on")

(***************************************************************************)
(* The device side and the exceptions of jive_cmd.                         *)
(***************************************************************************)
\* The exceptions the handlers catch: asyncio.TimeoutError and OSError.
Errs == {"TimeoutError", "OSError"}

\* str(err): wait_for raises TimeoutError() without arguments, whose text is
\* empty; an OSError carries the text of the operating system.
ErrStr(e) == IF e = "TimeoutError" THEN Empty ELSE OSErrorText

\* the reply line "!<word>? <code> : <fields> ;"
QueryReply(word, code, fields) ==
    <<"!">> \o word \o <<"?", " ", code, " ", ":", " ">> \o fields \o <<" ", ";", "\n">>

\* the reply line "!<word> = <code> ;"
AssignReply(word, code) ==
    <<"!">> \o word \o <<" ", "=", " ", code, " ", ";", "\n">>

CmdWord(c) ==
    CASE c \in {"status?"} -> WordStatus
      [] c \in {"net_protocol?", "net_protocol ="} -> WordNetProtocol
      [] c \in {"net_port?", "net_port ="} -> WordNetPort
      [] c \in {"set_disks ="} -> WordSetDisks
      [] c \in {"record?", "record = on", "record = off"} -> WordRecord
      [] OTHER -> WordNet2file

Queries == {"status?", "net_protocol?", "net_port?", "record?"}

\* the field text of a well-formed reply to a query
GoodFields(c) ==
    CASE c = "status?" -> TxtActive \o <<" ", ":", " ", "1", "2">>
      [] c = "net_protocol?" -> TxtUdps \o <<" ", ":", " ", "3", "2">>
      [] c = "net_port?" -> TxtPort
      [] OTHER -> TxtOn \o <<" ", ":", " ", "9", "9">>

\* What the device may answer to command c: for a query a well-formed
\* report or an error line without the fields; for an assignment the
\* code 0 or an error code.
DeviceReplies(c) ==
    IF c \in Queries
    THEN {QueryReply(CmdWord(c), "0", GoodFields(c)),
          <<"!">> \o CmdWord(c) \o <<"?", " ", "4", " ", ";", "\n">>}
    ELSE {AssignReply(CmdWord(c), "0"), AssignReply(CmdWord(c), "4")}

\* whether the reply to the assignment c carries the code 0, as
\* request_net2file_start tests it: r.startswith("!net2file = 0")
CodeZero(c, reply) == StartsWith(reply, <<"!">> \o CmdWord(c) \o <<" ", "=", " ", "0">>)

\* the device refused the assignment c: its reply carries another code
Refused(c, reply) == c \notin Queries /\ ~CodeZero(c, reply)

\* The commands that carry an argument of the caller, whose text can be
\* longer than what the socket takes at once.
LongCmds == {"net_port =", "set_disks =", "record = on", "net2file = open"}

\* Where jive_cmd stands after the connection is there and the command is
\* written: drain() returns at once when the transport took the bytes and
\* the task awaits the read; when the command is long and the device does
\* not take it, the task awaits drain(), which no timeout bounds.
PhasesAfterWrite(c) == IF c \in LongCmds THEN {"reading", "writing"} ELSE {"reading"}

(***************************************************************************)
(* State.                                                                  *)
(***************************************************************************)
PollTask == 0
Reqs == 1..NReq
Tasks == {PollTask} \cup Reqs

VARIABLES
    server,     \* "init", "running", "stopping" (inside stop()), "stopped"
    s_state,    \* sensor jive5ab-state
    s_bytes,    \* sensor jive5ab-bytes
    s_proto,    \* sensor jive5ab-protocol
    s_nport,    \* sensor jive5ab-port
    s_error,    \* sensor jive5ab-error
    task,       \* per task: the handler that runs and the await it stands at
    log,        \* per task: the commands passed to jive_cmd by the running
                \* handler (for the poll loop: by the current cycle)
    out,        \* per request task: the outcome returned by the handler
    fresh,      \* history, per request task that runs request_record_start:
                \* what became of the state value the handler fetched in
                \* _poll_once: "none" (no
                \* status? ended yet), "failed" (status? raised), "fresh"
                \* (its reply was stored and is the value of s_state),
                \* "overwritten" (stored, then replaced by another task)
    nack,       \* history, per request task: whether an assignment issued
                \* by the running handler itself was answered with a code
                \* other than 0
    conn,       \* per task: the number of connections to the control port
                \* the task holds open
    given,      \* the parsers on their own: what the reply text was made of
    text,       \* the parsers on their own: the reply text handed to them
    parsed      \* the parsers on their own: per parser, what it returned

vars ==
    <<server, s_state, s_bytes, s_proto, s_nport, s_error, task, log, out, fresh,
      nack, conn, given, text, parsed>>
parsing == <<given, text, parsed>>
sensors == <<s_state, s_bytes, s_proto, s_nport, s_error>>

NoOut == [status |-> "none", msg |-> Empty]
IdleTask ==
    [kind |-> "none", stage |-> "none", cmd |-> "none", phase |-> "idle",
     cancelled |-> FALSE]
NoReply == [kind |-> "none", field |-> Empty, count |-> 0, defect |-> "none"]
NotCalled ==
    [status |-> << >>, protocol |-> << >>, port |-> << >>, net2file |-> << >>]

\* __init__: the five sensors with their initial values, no poll task
Init ==
    /\ server = "init"
    /\ s_state = Unknown
    /\ s_bytes = 0
    /\ s_proto = Unknown
    /\ s_nport = Unknown
    /\ s_error = Empty
    /\ task = [t \in Tasks |-> IdleTask]
    /\ log = [t \in Tasks |-> << >>]
    /\ out = [t \in Reqs |-> NoOut]
    /\ fresh = [t \in Reqs |-> "none"]
    /\ nack = [t \in Reqs |-> FALSE]
    /\ conn = [t \in Tasks |-> 0]
    /\ given = NoReply
    /\ text = Empty
    /\ parsed = NotCalled

(***************************************************************************)
(* _poll_once: one try/except block per query.                             *)
(***************************************************************************)
RefreshCmds == <<"status?", "net_protocol?", "net_port?">>

\* f"{cmd}: {err}"
PollErrorMsg(c, e) == CmdWord(c) \o <<"?", ":", " ">> \o ErrStr(e)

\* mutant: every reply clears the Error Record
ErrorAfterReply_AlwaysClear(c, old) == Empty

\* the Error Record after query c of _poll_once got a reply
ErrorAfterReply(c, old) == IF c = "status?" THEN Empty ELSE old

\* mutant: a failed query also resets its sensor to the fallback
RefreshEffect_ResetOnError(c, res) ==
    IF res.tag = "reply"
    THEN /\ s_state' = IF c = "status?" THEN parse_status(res.val) ELSE s_state
         /\ s_proto' = IF c = "net_protocol?" THEN parse_protocol(res.val) ELSE s_proto
         /\ s_nport' = IF c = "net_port?" THEN parse_port(res.val) ELSE s_nport
         /\ s_error' = ErrorAfterReply(c, s_error)
         /\ UNCHANGED s_bytes
    ELSE /\ s_state' = IF c = "status?" THEN Unknown ELSE s_state
         /\ s_proto' = IF c = "net_protocol?" THEN Unknown ELSE s_proto
         /\ s_nport' = IF c = "net_port?" THEN Unknown ELSE s_nport
         /\ s_error' = PollErrorMsg(c, res.tag)
         /\ UNCHANGED s_bytes

\* mutant: a failed query leaves its sensor without a value
RefreshEffect_UnsetOnError(c, res) ==
    IF res.tag = "reply"
    THEN /\ s_state' = IF c = "status?" THEN parse_status(res.val) ELSE s_state
         /\ s_proto' = IF c = "net_protocol?" THEN parse_protocol(res.val) ELSE s_proto
         /\ s_nport' = IF c = "net_port?" THEN parse_port(res.val) ELSE s_nport
         /\ s_error' = ErrorAfterReply(c, s_error)
         /\ UNCHANGED s_bytes
    ELSE /\ s_state' = IF c = "status?" THEN <<"None">> ELSE s_state
         /\ s_proto' = IF c = "net_protocol?" THEN <<"None">> ELSE s_proto
         /\ s_nport' = IF c = "net_port?" THEN <<"None">> ELSE s_nport
         /\ s_error' = PollErrorMsg(c, res.tag)
         /\ UNCHANGED s_bytes

\* mutant: a failed status? query counts the bytes anew
RefreshEffect_BytesOnError(c, res) ==
    IF res.tag = "reply"
    THEN /\ s_state' = IF c = "status?" THEN parse_status(res.val) ELSE s_state
         /\ s_proto' = IF c = "net_protocol?" THEN parse_protocol(res.val) ELSE s_proto
         /\ s_nport' = IF c = "net_port?" THEN parse_port(res.val) ELSE s_nport
         /\ s_error' = ErrorAfterReply(c, s_error)
         /\ UNCHANGED s_bytes
    ELSE /\ s_bytes' = IF c = "status?" THEN 1 - s_bytes ELSE s_bytes
         /\ s_error' = PollErrorMsg(c, res.tag)
         /\ UNCHANGED <<s_state, s_proto, s_nport>>

\* mutant: the protocol report is written to the port value as well
RefreshEffect_CrossQuery(c, res) ==
    IF res.tag = "reply"
    THEN /\ s_state' = IF c = "status?" THEN parse_status(res.val) ELSE s_state
         /\ s_proto' = IF c = "net_protocol?" THEN parse_protocol(res.val) ELSE s_proto
         /\ s_nport' = IF c = "net_port?" THEN parse_port(res.val)
                       ELSE IF c = "net_protocol?" THEN parse_protocol(res.val)
                       ELSE s_nport
         /\ s_error' = ErrorAfterReply(c, s_error)
         /\ UNCHANGED s_bytes
    ELSE /\ s_error' = PollErrorMsg(c, res.tag)
         /\ UNCHANGED <<s_state, s_bytes, s_proto, s_nport>>

\* mutant: the byte count of the status report is stored, as the archived
\* concept of the proxy stores that of the net2file? report
RefreshEffect_StoresBytes(c, res) ==
    IF res.tag = "reply"
    THEN /\ s_state' = IF c = "status?" THEN parse_status(res.val) ELSE s_state
         /\ s_bytes' = IF c = "status?" /\ StatusMatch(res.val, 1).ok
                       THEN TextToInt(StatusMatch(res.val, 1).g2)
                       ELSE s_bytes
         /\ s_proto' = IF c = "net_protocol?" THEN parse_protocol(res.val) ELSE s_proto
         /\ s_nport' = IF c = "net_port?" THEN parse_port(res.val) ELSE s_nport
         /\ s_error' = ErrorAfterReply(c, s_error)
    ELSE /\ s_error' = PollErrorMsg(c, res.tag)
         /\ UNCHANGED <<s_state, s_bytes, s_proto, s_nport>>

\* the sensor values after query c of _poll_once ended with res
RefreshEffect(c, res) ==
    IF res.tag = "reply"
    THEN /\ s_state' = IF c = "status?" THEN parse_status(res.val) ELSE s_state
         /\ s_proto' = IF c = "net_protocol?" THEN parse_protocol(res.val) ELSE s_proto
         /\ s_nport' = IF c = "net_port?" THEN parse_port(res.val) ELSE s_nport
         /\ s_error' = ErrorAfterReply(c, s_error)
         /\ UNCHANGED s_bytes
    ELSE /\ s_error' = PollErrorMsg(c, res.tag)
         /\ UNCHANGED <<s_state, s_bytes, s_proto, s_nport>>

\* the query of _poll_once that follows c, "none" after the last
NextRefreshCmd(c) ==
    CASE c = "status?" -> "net_protocol?"
      [] c = "net_protocol?" -> "net_port?"
      [] OTHER -> "none"

\* mutant: an exception ends the cycle
AfterQuery_AbortOnError(c, res) ==
    IF res.tag = "reply" THEN NextRefreshCmd(c) ELSE "none"

\* the query _poll_once goes on with after query c ended with res: each
\* try/except block is left the same way after a reply and after an error
AfterQuery(c, res) == NextRefreshCmd(c)

(***************************************************************************)
(* The request handlers after their first await.                           *)
(***************************************************************************)
\* request_record_status: the message built from the reply
RecordStatusMsg(rep) ==
    LET Hits == {p \in 1..Len(rep) : RecordMatch(rep, p).ok}
        m == RecordMatch(rep, Leftmost(Hits))
    IN  IF Hits # {} THEN m.g1 \o <<" ">> \o m.g2 \o <<"B">> ELSE Strip(rep)

\* mutant: record-start returns without calling _poll_once
AfterOwnReply_NoRefresh(kind, c, n, reply) ==
    IF kind = "record_start" THEN DoReturn("ok", Empty) ELSE DoRefresh

\* mutant: net2file-start goes on to "net2file = on" whatever the retried
\* open was answered with
AfterOwnReply_OnAfterFailedRetry(kind, c, n, reply) ==
    CASE kind = "net2file_start" ->
            (CASE c = "net2file = open" /\ n = 1 ->
                    IF StartsWith(reply, LitNet2fileOk)
                    THEN DoCmd("net2file = on")
                    ELSE DoCmd("net2file = connect")
               [] c = "net2file = connect" -> DoCmd("net2file = open")
               [] c = "net2file = open" /\ n # 1 -> DoCmd("net2file = on")
               [] OTHER -> DoRefresh)
      [] kind = "net2file_stop" ->
            (CASE c = "net2file = off" -> DoCmd("net2file = flush")
               [] c = "net2file = flush" -> DoCmd("net2file = close")
               [] OTHER -> DoRefresh)
      [] kind = "set_disks" -> DoReturn("ok", Empty)
      [] kind = "record_status" -> DoReturn("ok", RecordStatusMsg(reply))
      [] OTHER -> DoRefresh

\* What handler kind does when its n-th command, c, returned reply.
AfterOwnReply(kind, c, n, reply) ==
    CASE kind = "net2file_start" ->
            (CASE c = "net2file = open" /\ n = 1 ->
                    IF StartsWith(reply, LitNet2fileOk)
                    THEN DoCmd("net2file = on")
                    ELSE DoCmd("net2file = connect")
               [] c = "net2file = connect" -> DoCmd("net2file = open")
               [] c = "net2file = open" /\ n # 1 ->
                    IF StartsWith(reply, LitNet2fileOk)
                    THEN DoCmd("net2file = on")
                    ELSE DoReturn("fail", MsgOpenFailed)
               [] OTHER -> DoRefresh)
      [] kind = "net2file_stop" ->
            (CASE c = "net2file = off" -> DoCmd("net2file = flush")
               [] c = "net2file = flush" -> DoCmd("net2file = close")
               [] OTHER -> DoRefresh)
      [] kind = "set_disks" -> DoReturn("ok", Empty)
      [] kind = "record_status" -> DoReturn("ok", RecordStatusMsg(reply))
      [] OTHER -> DoRefresh

\* mutant: the exception of a command is swallowed and the handler goes on
\* to _poll_once
AfterOwnError_Swallowed(e) == DoRefresh

\* What a handler does when a command of its own raised err: the except
\* clause records str(err) and returns it.
AfterOwnError(e) == DoReturn("fail", ErrStr(e))

\* the Error Record after a command of the handler itself raised e
ErrorAfterOwnError(e, old) == ErrStr(e)

(***************************************************************************)
(* Tasks.  A task runs from one await to the next in one step.  jive_cmd   *)
(* awaits the connection ("connecting"), then writes the command and       *)
(* awaits the reply ("reading"), then calls writer.close() and awaits      *)
(* wait_closed() ("closing"), after which it returns the reply or raises.  *)
(* The local variable data of jive_cmd is seen by nobody before jive_cmd   *)
(* returns it: its value is drawn when it is returned.                     *)
(***************************************************************************)
RefreshStep(c) == [next |-> "refresh", cmd |-> c, status |-> "none", msg |-> Empty]

\* the result of jive_cmd: a reply, or an exception the handlers catch
ReplyOf(r) == [tag |-> "reply", val |-> r]
Raised(e) == [tag |-> e, val |-> Empty]

\* task t, running handler kind, takes step: it calls jive_cmd and stands at
\* the await of the connection, or it returns its outcome
Take(t, kind, step) ==
    IF step.next = "return"
    THEN /\ task' = [task EXCEPT ![t] =
                        [kind |-> kind, stage |-> "none", cmd |-> "none",
                         phase |-> "done", cancelled |-> FALSE]]
         /\ out' = [out EXCEPT ![t] = [status |-> step.status, msg |-> step.msg]]
         /\ UNCHANGED log
    ELSE /\ task' = [task EXCEPT ![t] =
                        [kind |-> kind,
                         stage |-> IF step.next = "refresh" THEN "refresh" ELSE "own",
                         cmd |-> step.cmd, phase |-> "connecting",
                         cancelled |-> FALSE]]
         /\ log' = [log EXCEPT ![t] = Append(@, step.cmd)]
         /\ UNCHANGED out

\* mutant: a cycle that recorded an error ends the poll loop
EndRefresh_StopOnError(t) ==
    IF task[t].kind = "poll_loop"
    THEN /\ task' = [task EXCEPT ![t] =
                        [@ EXCEPT !.cmd = "none",
                                  !.phase = IF s_error' = Empty THEN "sleeping" ELSE "ended"]]
         /\ UNCHANGED <<log, out>>
    ELSE Take(t, task[t].kind, DoReturn("ok", Empty))

\* mutant: a request whose refresh recorded an error returns it as a failure
EndRefresh_FailOnError(t) ==
    IF task[t].kind = "poll_loop"
    THEN /\ task' = [task EXCEPT ![t] = [@ EXCEPT !.cmd = "none", !.phase = "sleeping"]]
         /\ UNCHANGED <<log, out>>
    ELSE Take(t, task[t].kind,
              IF s_error' = Empty THEN DoReturn("ok", Empty) ELSE DoReturn("fail", s_error'))

\* the end of _poll_once: the poll loop sleeps, a request returns ok
EndRefresh(t) ==
    IF task[t].kind = "poll_loop"
    THEN /\ task' = [task EXCEPT ![t] = [@ EXCEPT !.cmd = "none", !.phase = "sleeping"]]
         /\ UNCHANGED <<log, out>>
    ELSE Take(t, task[t].kind, DoReturn("ok", Empty))

\* history: fresh after the status? query of task t ended with res; the
\* history is kept for the handlers that run request_record_start
FreshAfter(t, res) ==
    [u \in Reqs |->
        IF u = t
        THEN (IF task[t].kind # "record_start" THEN fresh[u]
              ELSE IF res.tag = "reply" THEN "fresh" ELSE "failed")
        ELSE IF res.tag = "reply" /\ fresh[u] = "fresh" THEN "overwritten"
        ELSE fresh[u]]

\* jive_cmd of task t ended with res: the handler runs on to its next await
\* or to its return
Resume(t, res) ==
    LET tk == task[t]
    IN  IF tk.stage = "refresh"
        THEN /\ RefreshEffect(tk.cmd, res)
             /\ fresh' = IF tk.cmd = "status?" THEN FreshAfter(t, res) ELSE fresh
             /\ UNCHANGED nack
             /\ IF AfterQuery(tk.cmd, res) # "none"
                THEN Take(t, tk.kind, RefreshStep(AfterQuery(tk.cmd, res)))
                ELSE EndRefresh(t)
        ELSE IF res.tag = "reply"
        THEN /\ UNCHANGED <<sensors, fresh>>
             /\ nack' = [nack EXCEPT ![t] = @ \/ Refused(tk.cmd, res.val)]
             /\ Take(t, tk.kind, AfterOwnReply(tk.kind, tk.cmd, Len(log[t]), res.val))
        ELSE /\ s_error' = ErrorAfterOwnError(res.tag, s_error)
             /\ UNCHANGED <<s_state, s_bytes, s_proto, s_nport, fresh, nack>>
             /\ Take(t, tk.kind, AfterOwnError(res.tag))

(***************************************************************************)
(* jive_cmd.                                                               *)
(***************************************************************************)
\* open_connection succeeded: the command is written, the reply awaited
ConnectOk(t) ==
    /\ task[t].phase = "connecting"
    /\ \E p \in PhasesAfterWrite(task[t].cmd) :
            task' = [task EXCEPT ![t] = [@ EXCEPT !.phase = p]]
    /\ conn' = [conn EXCEPT ![t] = @ + 1]
    /\ UNCHANGED <<server, sensors, log, out, fresh, nack>>
    /\ UNCHANGED parsing

\* the await of drain() ended: the device took the command.  (An exception
\* of drain() leaves the try block as an exception of the read does.)
DrainDone(t) ==
    /\ task[t].phase = "writing"
    /\ task' = [task EXCEPT ![t] = [@ EXCEPT !.phase = "reading"]]
    /\ UNCHANGED <<server, sensors, log, out, fresh, nack, conn>>
    /\ UNCHANGED parsing

\* open_connection failed or timed out: the exception leaves jive_cmd
ConnectFail(t, e) ==
    /\ task[t].phase = "connecting"
    /\ Resume(t, Raised(e))
    /\ UNCHANGED <<server, conn>>
    /\ UNCHANGED parsing

\* the await of the read ended, with data or with an exception: finally
\* closes the writer and awaits wait_closed()
ReadDone(t) ==
    /\ task[t].phase = "reading"
    /\ task' = [task EXCEPT ![t] = [@ EXCEPT !.phase = "closing"]]
    /\ UNCHANGED <<server, sensors, log, out, fresh, nack, conn>>
    /\ UNCHANGED parsing

\* wait_closed() returned and jive_cmd returns the reply r
ClosedReply(t, r) ==
    /\ task[t].phase = "closing"
    /\ ~task[t].cancelled
    /\ r \in DeviceReplies(task[t].cmd)
    /\ Resume(t, ReplyOf(r))
    /\ conn' = [conn EXCEPT ![t] = @ - 1]
    /\ UNCHANGED server
    /\ UNCHANGED parsing

\* wait_closed() returned and jive_cmd raises what drain or read raised
ClosedError(t, e) ==
    /\ task[t].phase = "closing"
    /\ ~task[t].cancelled
    /\ Resume(t, Raised(e))
    /\ conn' = [conn EXCEPT ![t] = @ - 1]
    /\ UNCHANGED server
    /\ UNCHANGED parsing

\* mutant: the CancelledError is lost at wait_closed(), jive_cmd returns the
\* reply and the task goes on
ClosedCancelled_Swallowed(t) ==
    /\ task[t].phase = "closing"
    /\ task[t].cancelled
    /\ \E r \in DeviceReplies(task[t].cmd) : Resume(t, ReplyOf(r))
    /\ conn' = [conn EXCEPT ![t] = @ - 1]
    /\ UNCHANGED server
    /\ UNCHANGED parsing

\* wait_closed() returned and jive_cmd raises the CancelledError that was
\* thrown into the read: no handler catches it, the task ends
ClosedCancelled(t) ==
    /\ task[t].phase = "closing"
    /\ task[t].cancelled
    /\ task' = [task EXCEPT ![t] =
                    [@ EXCEPT !.cmd = "none", !.phase = "ended", !.cancelled = FALSE]]
    /\ conn' = [conn EXCEPT ![t] = @ - 1]
    /\ UNCHANGED <<server, sensors, log, out, fresh, nack>>
    /\ UNCHANGED parsing

(***************************************************************************)
(* start, stop and the poll loop.                                          *)
(***************************************************************************)
\* start(): the poll task is created
Start ==
    /\ server = "init"
    /\ server' = "running"
    /\ task' = [task EXCEPT ![PollTask] =
                    [kind |-> "poll_loop", stage |-> "refresh", cmd |-> "none",
                     phase |-> "created", cancelled |-> FALSE]]
    /\ UNCHANGED <<sensors, log, out, fresh, nack, conn>>
    /\ UNCHANGED parsing

\* _poll_loop enters _poll_once: at its first run and after each sleep
PollBegin ==
    /\ task[PollTask].phase \in {"created", "sleeping"}
    /\ task' = [task EXCEPT ![PollTask] =
                    [@ EXCEPT !.cmd = RefreshCmds[1], !.phase = "connecting"]]
    /\ log' = [log EXCEPT ![PollTask] = <<RefreshCmds[1]>>]
    /\ UNCHANGED <<server, sensors, out, fresh, nack, conn>>
    /\ UNCHANGED parsing

\* mutant: jive_cmd without the finally clause, a cancelled read leaves the
\* connection as it is
Cancelled_Abandon(tk) == [tk EXCEPT !.cmd = "none", !.phase = "ended", !.cancelled = FALSE]

\* The poll task after CancelledError is thrown into it at the await it
\* stands at: inside the try of jive_cmd (the read) the finally clause
\* closes the writer and awaits wait_closed(); elsewhere the task ends.
Cancelled(tk) ==
    IF tk.phase = "reading"
    THEN [tk EXCEPT !.phase = "closing", !.cancelled = TRUE]
    ELSE [tk EXCEPT !.cmd = "none", !.phase = "ended", !.cancelled = FALSE]

\* The connections the cancelled task holds, n before: a task cancelled at
\* wait_closed() has called writer.close() and the loop has run the close
\* before it throws the CancelledError into the task.
ConnAfterCancel(tk, n) == IF tk.phase = "closing" THEN n - 1 ELSE n

\* stop(): _poll_task.cancel(), then await _poll_task.  The cancelled task
\* takes no step of its own before the CancelledError is thrown into it.
StopBegin ==
    /\ server = "running"
    /\ server' = "stopping"
    /\ task' = [task EXCEPT ![PollTask] = Cancelled(@)]
    /\ conn' = [conn EXCEPT ![PollTask] = ConnAfterCancel(task[PollTask], @)]
    /\ UNCHANGED <<sensors, log, out, fresh, nack>>
    /\ UNCHANGED parsing

\* mutant: stop() does not await the poll task
StopEnd_NoWait ==
    /\ server = "stopping"
    /\ server' = "stopped"
    /\ UNCHANGED <<sensors, task, log, out, fresh, nack, conn>>
    /\ UNCHANGED parsing

\* stop(): the poll task has ended, super().stop() runs
StopEnd ==
    /\ server = "stopping"
    /\ task[PollTask].phase = "ended"
    /\ server' = "stopped"
    /\ UNCHANGED <<sensors, task, log, out, fresh, nack, conn>>
    /\ UNCHANGED parsing

(***************************************************************************)
(* The request handlers, from the call to the first await or the return.   *)
(***************************************************************************)
Accepting(t) == server \in {"running", "stopping"} /\ task[t].phase = "idle"

Protos == {TxtUdp, TxtUDPS, TxtBogus}
IntArgs == {TxtFour, TxtAbc}
Destinations == {TxtPort, TxtMcastPort, TxtAbc, TxtBadMcast, Empty}
DiskLists == {<< >>, <<TxtDisk>>, <<TxtDisk, TxtDisk>>}
ScanNames == {Empty, TxtScan}

RECURSIVE IntToText(_)
\* str(n) of a natural number
IntToText(n) ==
    LET d == <<"0", "1", "2", "3", "4", "5", "6", "7", "8", "9">>[(n % 10) + 1]
    IN  IF n < 10 THEN <<d>> ELSE IntToText(n \div 10) \o <<d>>

\* f"{state} {bytes}B {proto} {port}"
StatusLine ==
    s_state \o <<" ">> \o IntToText(s_bytes) \o <<"B", " ">> \o s_proto \o <<" ">> \o s_nport

\* mutant: the status request runs _poll_once before it answers
request_status_Refreshing(t) ==
    /\ Accepting(t)
    /\ Take(t, "status", DoRefresh)
    /\ UNCHANGED <<server, sensors, fresh, nack, conn>>
    /\ UNCHANGED parsing

request_status(t) ==
    /\ Accepting(t)
    /\ Take(t, "status", DoReturn("ok", StatusLine))
    /\ UNCHANGED <<server, sensors, fresh, nack, conn>>
    /\ UNCHANGED parsing

request_set_protocol(t, proto, rcv, snd, threads) ==
    /\ Accepting(t)
    /\ Take(t, "set_protocol", ValidateSetProtocol(proto, rcv, snd, threads))
    /\ UNCHANGED <<server, sensors, fresh, nack, conn>>
    /\ UNCHANGED parsing

\* mutant: a rejected destination is written to the Error Record, as the
\* archived concept of the proxy does
request_set_port_Recording(t, destination) ==
    /\ Accepting(t)
    /\ Take(t, "set_port", ValidateSetPort(destination))
    /\ IF ValidateSetPort(destination).next = "return"
       THEN /\ s_error' = ValidateSetPort(destination).msg
            /\ UNCHANGED <<s_state, s_bytes, s_proto, s_nport>>
       ELSE UNCHANGED sensors
    /\ UNCHANGED <<server, fresh, nack, conn>>
    /\ UNCHANGED parsing

request_set_port(t, destination) ==
    /\ Accepting(t)
    /\ Take(t, "set_port", ValidateSetPort(destination))
    /\ UNCHANGED <<server, sensors, fresh, nack, conn>>
    /\ UNCHANGED parsing

request_set_disks(t, paths) ==
    /\ Accepting(t)
    /\ Take(t, "set_disks", ValidateSetDisks(paths))
    /\ UNCHANGED <<server, sensors, fresh, nack, conn>>
    /\ UNCHANGED parsing

request_record_start(t, scan_name) ==
    /\ Accepting(t)
    /\ Take(t, "record_start", ValidateRecordStart(scan_name))
    /\ UNCHANGED <<server, sensors, fresh, nack, conn>>
    /\ UNCHANGED parsing

request_record_stop(t) ==
    /\ Accepting(t)
    /\ Take(t, "record_stop", DoCmd("record = off"))
    /\ UNCHANGED <<server, sensors, fresh, nack, conn>>
    /\ UNCHANGED parsing

request_record_status(t) ==
    /\ Accepting(t)
    /\ Take(t, "record_status", DoCmd("record?"))
    /\ UNCHANGED <<server, sensors, fresh, nack, conn>>
    /\ UNCHANGED parsing

request_net2file_start(t) ==
    /\ Accepting(t)
    /\ Take(t, "net2file_start", DoCmd("net2file = open"))
    /\ UNCHANGED <<server, sensors, fresh, nack, conn>>
    /\ UNCHANGED parsing

request_net2file_stop(t) ==
    /\ Accepting(t)
    /\ Take(t, "net2file_stop", DoCmd("net2file = off"))
    /\ UNCHANGED <<server, sensors, fresh, nack, conn>>
    /\ UNCHANGED parsing

\* the outcome has been handed to the caller; the task is gone
Returned(t) ==
    /\ task[t].phase = "done"
    /\ task' = [task EXCEPT ![t] = IdleTask]
    /\ log' = [log EXCEPT ![t] = << >>]
    /\ out' = [out EXCEPT ![t] = NoOut]
    /\ fresh' = [fresh EXCEPT ![t] = "none"]
    /\ nack' = [nack EXCEPT ![t] = FALSE]
    /\ UNCHANGED <<server, sensors, conn>>
    /\ UNCHANGED parsing

Next ==
    \/ Start
    \/ PollBegin
    \/ StopBegin
    \/ StopEnd
    \/ \E t \in Tasks : ConnectOk(t)
    \/ \E t \in Tasks, e \in Errs : ConnectFail(t, e)
    \/ \E t \in Reqs : DrainDone(t)
    \/ \E t \in Tasks : ReadDone(t)
    \/ \E t \in Tasks : \E r \in DeviceReplies(task[t].cmd) : ClosedReply(t, r)
    \/ \E t \in Tasks, e \in Errs : ClosedError(t, e)
    \/ \E t \in Tasks : ClosedCancelled(t)
    \/ \E t \in Reqs : request_status(t)
    \/ \E t \in Reqs, proto \in Protos, rcv \in IntArgs, threads \in IntArgs :
            request_set_protocol(t, proto, rcv, TxtBufSize, threads)
    \/ \E t \in Reqs, destination \in Destinations : request_set_port(t, destination)
    \/ \E t \in Reqs, paths \in DiskLists : request_set_disks(t, paths)
    \/ \E t \in Reqs, scan_name \in ScanNames : request_record_start(t, scan_name)
    \/ \E t \in Reqs : request_record_stop(t)
    \/ \E t \in Reqs : request_record_status(t)
    \/ \E t \in Reqs : request_net2file_start(t)
    \/ \E t \in Reqs : request_net2file_stop(t)
    \/ \E t \in Reqs : Returned(t)

Spec == Init /\ [][Next]_vars

\* The awaits that end without the device or a client doing anything: the
\* two wait_for give up after the timeout when nothing else ended them,
\* wait_closed() returns once writer.close() has run, sleep(120.0) ends,
\* _amain calls start() at once, stop() goes on when the poll task has
\* ended, a handler that returned hands over its outcome.  Nothing makes
\* drain() end, a client send a request, or anybody call stop().
FairSpec ==
    /\ Spec
    /\ WF_vars(Start)
    /\ WF_vars(PollBegin)
    /\ WF_vars(StopEnd)
    /\ \A t \in Tasks :
          /\ WF_vars(ConnectOk(t) \/ \E e \in Errs : ConnectFail(t, e))
          /\ WF_vars(ReadDone(t))
          /\ WF_vars(\/ \E r \in DeviceReplies(task[t].cmd) : ClosedReply(t, r)
                     \/ \E e \in Errs : ClosedError(t, e)
                     \/ ClosedCancelled(t))
    /\ \A t \in Reqs : WF_vars(Returned(t))

\* The server with the clients that ask for the status or stop a recording:
\* start, stop, the poll loop, request_status, request_record_stop, and
\* the jive_cmd calls of all of them.
NextPoll ==
    \/ Start
    \/ PollBegin
    \/ StopBegin
    \/ StopEnd
    \/ \E t \in Tasks : ConnectOk(t)
    \/ \E t \in Tasks, e \in Errs : ConnectFail(t, e)
    \/ \E t \in Tasks : ReadDone(t)
    \/ \E t \in Tasks : \E r \in DeviceReplies(task[t].cmd) : ClosedReply(t, r)
    \/ \E t \in Tasks, e \in Errs : ClosedError(t, e)
    \/ \E t \in Tasks : ClosedCancelled(t)
    \/ \E t \in Reqs : request_status(t)
    \/ \E t \in Reqs : request_record_stop(t)
    \/ \E t \in Reqs : Returned(t)

\* NextPoll with the awaits that end by themselves, as in FairSpec
PollFairSpec ==
    /\ Init
    /\ [][NextPoll]_vars
    /\ WF_vars(Start)
    /\ WF_vars(PollBegin)
    /\ WF_vars(StopEnd)
    /\ \A t \in Tasks :
          /\ WF_vars(ConnectOk(t) \/ \E e \in Errs : ConnectFail(t, e))
          /\ WF_vars(ReadDone(t))
          /\ WF_vars(\/ \E r \in DeviceReplies(task[t].cmd) : ClosedReply(t, r)
                     \/ \E e \in Errs : ClosedError(t, e)
                     \/ ClosedCancelled(t))
    /\ \A t \in Reqs : WF_vars(Returned(t))

(***************************************************************************)
(* The parsers on their own.  A reply text is made from a report of the    *)
(* form the device documents, whole or damaged, and each parser is called  *)
(* on it once.                                                             *)
(***************************************************************************)
proxy ==
    <<server, s_state, s_bytes, s_proto, s_nport, s_error, task, log, out, fresh,
      nack, conn>>

TxtIdle2 ==
    <<"i", "d", "l", "e", "_", "2">>

\* state words (\w+) and byte counts (\d+) of a status report
StateWords == {TxtActive, TxtOn, TxtIdle2}
ByteCounts == {0, 7, 12, 3050}

\* What can be wrong with the text that reader.read(4096) returned:
\* "cut" lacks its last four characters (the read returned a part of the
\* line), "spaces" has two blanks after the code, "nofields" is the line
\* of an error code without fields, "blank" has a blank for its fields.
Defects == {"none", "cut", "spaces", "nofields", "blank"}

Reports ==
    [kind : {"status", "net2file"}, field : StateWords, count : ByteCounts,
     defect : Defects]
    \cup [kind : {"protocol"}, field : {TxtUdp, TxtUdps}, count : {0, 4},
          defect : Defects]
    \cup [kind : {"port"}, field : {TxtPort, TxtMcastPort}, count : {0},
          defect : Defects]

KindWord(k) ==
    CASE k = "status" -> WordStatus
      [] k = "net2file" -> WordNet2file
      [] k = "protocol" -> WordNetProtocol
      [] OTHER -> WordNetPort

\* the fields of the report g: "<state> : <bytes>", "<protocol> : <n>", "<port>"
ReportFields(g) ==
    IF g.kind = "port"
    THEN g.field
    ELSE g.field \o <<" ", ":", " ">> \o IntToText(g.count)

\* the text of the report g as jive_cmd returns it
ReplyText(g) ==
    LET w == KindWord(g.kind)
        whole == QueryReply(w, "0", ReportFields(g))
    IN  CASE g.defect = "none" -> whole
          [] g.defect = "cut" -> SubSeq(whole, 1, Len(whole) - 4)
          [] g.defect = "spaces" ->
                <<"!">> \o w \o <<"?", " ", "0", " ", " ", ":", " ">>
                    \o ReportFields(g) \o <<" ", ";", "\n">>
          [] g.defect = "nofields" -> <<"!">> \o w \o <<"?", " ", "4", " ", ";", "\n">>
          [] OTHER -> QueryReply(w, "0", <<" ">>)

\* jive_cmd returned the text of the report g
Receive(g) ==
    /\ given = NoReply
    /\ given' = g
    /\ text' = ReplyText(g)
    /\ UNCHANGED <<parsed, proxy>>

CallParseStatus ==
    /\ given # NoReply
    /\ parsed.status = << >>
    /\ parsed' = [parsed EXCEPT !.status = <<parse_status(text)>>]
    /\ UNCHANGED <<given, text, proxy>>

CallParseProtocol ==
    /\ given # NoReply
    /\ parsed.protocol = << >>
    /\ parsed' = [parsed EXCEPT !.protocol = <<parse_protocol(text)>>]
    /\ UNCHANGED <<given, text, proxy>>

CallParsePort ==
    /\ given # NoReply
    /\ parsed.port = << >>
    /\ parsed' = [parsed EXCEPT !.port = <<parse_port(text)>>]
    /\ UNCHANGED <<given, text, proxy>>

CallParseNet2file ==
    /\ given # NoReply
    /\ parsed.net2file = << >>
    /\ parsed' = [parsed EXCEPT !.net2file = <<parse_net2file(text)>>]
    /\ UNCHANGED <<given, text, proxy>>

ParseNext ==
    \/ \E g \in Reports : Receive(g)
    \/ CallParseStatus
    \/ CallParseProtocol
    \/ CallParsePort
    \/ CallParseNet2file

ParseSpec == Init /\ [][ParseNext]_vars

(***************************************************************************)
(* Properties.                                                             *)
(***************************************************************************)
IsPrefix(a, b) == Len(a) <= Len(b) /\ SubSeq(b, 1, Len(a)) = a

\* a jive_cmd exchange of task t is under way: its connection is open
\* (opened, and wait_closed() has not yet returned)
Exchanging(t) == task[t].phase \in {"writing", "reading", "closing"}

Done(t) == task[t].phase = "done"

\* C1. Device interactions are serialized: in every reachable state at most
\* one jive_cmd exchange (from connection open to connection close) is in
\* flight, for the request handlers together with the poll loop.
C1_Serialized == Cardinality({t \in Tasks : Exchanging(t)}) <= 1

\* Calls whose arguments the handlers must reject: a protocol that is neither
\* udp nor udps, udps with a buffer or thread argument that is no integer, a
\* destination that is neither an integer nor <x>@<integer>, no disk path,
\* an empty scan name.
RejectedCall(t) ==
    \/ \E proto \in Protos, rcv \in IntArgs, threads \in IntArgs :
          /\ proto = TxtBogus \/ (proto = TxtUDPS /\ TxtAbc \in {rcv, threads})
          /\ request_set_protocol(t, proto, rcv, TxtBufSize, threads)
    \/ \E destination \in {TxtAbc, TxtBadMcast, Empty} :
          request_set_port(t, destination)
    \/ request_set_disks(t, << >>)
    \/ request_record_start(t, Empty)

\* C2. A request whose arguments fail validation returns failure without
\* any device interaction: no command is passed to jive_cmd and no
\* connection is opened.
C2_RejectedWithoutDevice ==
    [][\A t \in Reqs :
          RejectedCall(t) =>
              /\ task'[t].phase = "done"
              /\ out'[t].status = "fail"
              /\ log'[t] = << >>
              /\ ~Exchanging(t)']_vars

C2_Witness ==
    \E t \in Reqs :
        /\ Done(t)
        /\ task[t].kind = "set_protocol"
        /\ out[t] = [status |-> "fail", msg |-> MsgBadProtocol]
        /\ log[t] = << >>

\* C3. A validation failure has no side effects: the Error Record and the
\* four other sensor values are what they were before the request.
C3_RejectionKeepsSensors ==
    [][\A t \in Reqs : RejectedCall(t) => UNCHANGED sensors]_vars

C3_Witness ==
    \E t \in Reqs :
        /\ Done(t)
        /\ task[t].kind = "set_port"
        /\ out[t] = [status |-> "fail", msg |-> MsgInvalidPort]
        /\ s_error = PollErrorMsg("net_port?", "OSError")
        /\ s_state = TxtActive

\* the text a failure e of command c of task t is recorded with
FailureText(t, c, e) ==
    IF task[t].stage = "refresh" THEN PollErrorMsg(c, e) ELSE ErrStr(e)

\* C4. The Error Record reflects the most recently completed device
\* interaction: after any command succeeds it is empty, after any command
\* fails it holds that failure's text.
C4_ErrorRecordFollowsLastCommand ==
    [][\A t \in Tasks :
          /\ \A r \in DeviceReplies(task[t].cmd) :
                ClosedReply(t, r) => s_error' = Empty
          /\ \A e \in Errs :
                (ClosedError(t, e) \/ ConnectFail(t, e)) =>
                    s_error' = FailureText(t, task[t].cmd, e)]_vars

\* C5. In a poll cycle a query that fails with a timeout or a transport
\* error leaves its sensor unchanged and writes a message naming the failed
\* command into the Error Record.
C5_FailedQueryKeepsValue ==
    [][\A t \in Tasks, e \in Errs, c \in {"status?", "net_protocol?", "net_port?"} :
          (/\ task[t].stage = "refresh"
           /\ task[t].cmd = c
           /\ ClosedError(t, e) \/ ConnectFail(t, e)) =>
              /\ c = "status?" => s_state' = s_state
              /\ c = "net_protocol?" => s_proto' = s_proto
              /\ c = "net_port?" => s_nport' = s_nport
              /\ StartsWith(s_error', CmdWord(c) \o <<"?">>)
              /\ s_error' = CmdWord(c) \o <<"?", ":", " ">> \o ErrStr(e)]_vars

C5_Witness ==
    /\ task[PollTask].phase = "sleeping"
    /\ s_nport = TxtPort
    /\ s_error = WordNetPort \o <<"?", ":", " ">> \o OSErrorText

\* the commands of the _poll_once that task t runs or ran last
CycleLog(t) ==
    IF t = PollTask THEN log[t]
    ELSE IF \E i \in 1..Len(log[t]) : log[t][i] = "status?"
    THEN SubSeq(log[t],
                CHOOSE i \in 1..Len(log[t]) :
                    log[t][i] = "status?" /\ \A j \in 1..(i - 1) : log[t][j] # "status?",
                Len(log[t]))
    ELSE << >>

\* task t has left _poll_once by its end
CycleDone(t) ==
    \/ t = PollTask /\ task[t].phase = "sleeping"
    \/ t \in Reqs /\ Done(t) /\ CycleLog(t) # << >>

\* C6. Within one poll cycle status?, net_protocol?, net_port? are each
\* attempted exactly once and in that order, whatever the outcome of the
\* earlier ones: a cycle that has ended has attempted all three.
C6_CycleAttemptsAllInOrder ==
    \A t \in Tasks :
        /\ IsPrefix(CycleLog(t), RefreshCmds)
        /\ CycleDone(t) => CycleLog(t) = RefreshCmds

C6_Witness ==
    /\ task[PollTask].phase = "sleeping"
    /\ log[PollTask] = <<"status?", "net_protocol?", "net_port?">>
    /\ s_state = Unknown
    /\ s_proto = TxtUdps
    /\ s_nport = TxtPort
    /\ s_error = WordStatus \o <<"?", ":", " ">> \o OSErrorText

\* the error line "!<word>? 4 ;" the device answers a query with: it lacks
\* the fields the parsers look for
MalformedReply(c) == <<"!">> \o CmdWord(c) \o <<"?", " ", "4", " ", ";", "\n">>

\* task t, in _poll_once, gets the malformed reply to its query c
GetsMalformed(t, c) ==
    /\ task[t].stage = "refresh"
    /\ task[t].cmd = c
    /\ ClosedReply(t, MalformedReply(c))

\* C7 as stated. A control reply that cannot be parsed is discarded: the
\* sensor keeps its previous value and an error is recorded in the Error
\* Record.
C7_UnparsableDiscarded ==
    [][\A t \in Tasks, c \in {"status?", "net_protocol?", "net_port?"} :
          GetsMalformed(t, c) =>
              /\ c = "status?" => s_state' = s_state
              /\ c = "net_protocol?" => s_proto' = s_proto
              /\ c = "net_port?" => s_nport' = s_nport
              /\ s_error' # Empty]_vars

\* C7 as amended. A control reply that cannot be parsed is not discarded:
\* the sensor is set to the fallback "unknown" and no error is recorded for
\* it (a status? reply clears the Error Record, a net_protocol? or net_port?
\* reply leaves it as it was).
C7_UnparsableYieldsFallback ==
    [][\A t \in Tasks, c \in {"status?", "net_protocol?", "net_port?"} :
          GetsMalformed(t, c) =>
              /\ c = "status?" => s_state' = Unknown /\ s_error' = Empty
              /\ c = "net_protocol?" => s_proto' = Unknown /\ s_error' = s_error
              /\ c = "net_port?" => s_nport' = Unknown /\ s_error' = s_error]_vars

C7_Witness ==
    /\ task[PollTask].phase = "sleeping"
    /\ \A t \in Reqs : task[t].phase = "idle"
    /\ s_state = TxtActive
    /\ s_proto = Unknown
    /\ s_nport = TxtPort
    /\ s_error = Empty

\* record-start has returned success
RecordStarted(t) ==
    /\ Done(t)
    /\ task[t].kind = "record_start"
    /\ out[t].status = "ok"

StateChanging ==
    {"set_protocol", "set_port", "set_disks", "record_start", "record_stop",
     "net2file_start", "net2file_stop"}

\* C9. Every request that changes device state triggers exactly one ad hoc
\* refresh cycle after its command sequence succeeds and before it returns
\* its outcome.
C9_RefreshBeforeReturn ==
    \A t \in Reqs :
        (Done(t) /\ task[t].kind \in StateChanging /\ out[t].status = "ok") =>
            /\ Len(log[t]) >= 4
            /\ SubSeq(log[t], Len(log[t]) - 2, Len(log[t])) = RefreshCmds
            /\ Cardinality({i \in 1..Len(log[t]) : log[t][i] = "status?"}) = 1

\* C10. Whenever a request returns failure after having contacted the
\* device, the Error Record equals the returned message at the moment of
\* return.
C10_FailureRecorded ==
    [][\A t \in Reqs :
          (/\ ~Done(t)
           /\ Done(t)'
           /\ out'[t].status = "fail"
           /\ log'[t] # << >>) => s_error' = out'[t].msg]_vars

\* C11. A state-changing request returns success only if every assignment
\* it issued was answered with code 0.
C11_SuccessOnlyIfAllAcked ==
    \A t \in Reqs :
        (Done(t) /\ task[t].kind \in StateChanging /\ out[t].status = "ok") =>
            ~nack[t]

\* the command logs of request_net2file_start: without and with the
\* fallback
Net2fileLogs ==
    {<<"net2file = open", "net2file = on">> \o RefreshCmds,
     <<"net2file = open", "net2file = connect", "net2file = open", "net2file = on">>
        \o RefreshCmds}

\* C12. net2file-start performs the connect fallback: after a first open
\* answered with code 0 it issues "net2file = on" and no connect; after a
\* first open answered otherwise it issues one connect and then one retry
\* of open; it fails for the open step only when the retry is refused too,
\* and "net2file = on" follows only an open answered with code 0.
C12_ConnectFallback ==
    [][\A t \in Reqs :
          task[t].kind = "net2file_start" =>
              /\ \E l \in Net2fileLogs : IsPrefix(log'[t], l)
              /\ \A r \in DeviceReplies("net2file = open") :
                    (task[t].cmd = "net2file = open" /\ ClosedReply(t, r)) =>
                        IF CodeZero("net2file = open", r)
                        THEN log'[t] = Append(log[t], "net2file = on")
                        ELSE IF log[t] = <<"net2file = open">>
                        THEN log'[t] = Append(log[t], "net2file = connect")
                        ELSE /\ Done(t)'
                             /\ out'[t] = [status |-> "fail", msg |-> MsgOpenFailed]
                             /\ log'[t] = log[t]
              /\ (task'[t].cmd = "net2file = on" /\ task[t].cmd # "net2file = on") =>
                    /\ task[t].cmd = "net2file = open"
                    /\ \E r \in DeviceReplies("net2file = open") :
                          CodeZero("net2file = open", r) /\ ClosedReply(t, r)]_vars

C12_Witness ==
    \E t \in Reqs :
        /\ Done(t)
        /\ task[t].kind = "net2file_start"
        /\ out[t].status = "ok"
        /\ nack[t]
        /\ SubSeq(log[t], 1, 4) =
              <<"net2file = open", "net2file = connect", "net2file = open", "net2file = on">>

\* C13. A jive_cmd call opens at most one connection and the connection is
\* closed when the call returns or raises, on every exit path: a task that
\* is not between the opening of a connection and the end of wait_closed()
\* holds no connection.
C13_ConnectionClosedOnExit ==
    \A t \in Tasks :
        /\ conn[t] \in {0, 1}
        /\ conn[t] = 1 => task[t].phase \in {"writing", "reading", "closing"}

\* the poll task was cancelled with a command in flight and has ended
C13_Witness ==
    /\ task[PollTask].phase = "ended"
    /\ log[PollTask] = <<"status?", "net_protocol?">>
    /\ conn[PollTask] = 0
    /\ \E t \in Reqs : Done(t) /\ out[t].status = "fail" /\ log[t] # << >> /\ conn[t] = 0

\* task t is inside a call of jive_cmd
InCall(t) == task[t].phase \in {"connecting", "writing", "reading", "closing"}

\* C14. Every call of jive_cmd terminates: a task that is inside a call
\* leaves it, whatever the device does.
C14_EveryCallTerminates == \A t \in Tasks : InCall(t) ~> ~InCall(t)

PollInCycle == InCall(PollTask)
PollSleeping == task[PollTask].phase = "sleeping"
Cancelling == server \in {"stopping", "stopped"}

\* C15. The poll loop never stops because of device errors: it ends only
\* when it is cancelled, and as long as it is not cancelled every cycle is
\* followed by a sleep and every sleep by another cycle, whatever the
\* outcome of the queries.
C15_PollNeverStops ==
    /\ [](task[PollTask].phase = "ended" => Cancelling)
    /\ PollInCycle ~> (PollSleeping \/ Cancelling)
    /\ PollSleeping ~> (PollInCycle \/ Cancelling)

\* a new cycle has begun after a cycle whose last query failed
C15_Witness ==
    /\ server = "running"
    /\ task[PollTask].phase = "reading"
    /\ log[PollTask] = <<"status?">>
    /\ s_error = PollErrorMsg("net_port?", "TimeoutError")
    /\ s_nport = Unknown

\* the characters of the texts the proxy handles
Chars ==
    WordChars \cup SpaceChars
        \cup {"!", "?", "=", ":", ";", "@", ".", "/", ",", "'", "-", "[", "]", "(", ")"}

IsText(s) == s \in Seq(Chars)

\* each of the five values is there, with a value of its type
SensorsValid ==
    /\ IsText(s_state)
    /\ s_bytes \in Int
    /\ IsText(s_proto)
    /\ IsText(s_nport)
    /\ IsText(s_error)

\* C16. When stop() cancels the poll task during a cycle, the task ends:
\* it issues no further command, the reply of the pending command is not
\* awaited or stored, its connection is closed, and the five values stay
\* valid.
C16_CancelledPollEnds ==
    /\ [][Cancelling' =>
            /\ log'[PollTask] = log[PollTask]
            /\ task'[PollTask] # task[PollTask] =>
                  /\ sensors' = sensors
                  /\ task'[PollTask].phase \in {"closing", "ended"}
                  /\ task'[PollTask].phase = "ended" => conn'[PollTask] = 0]_vars
    /\ [](Cancelling => SensorsValid)
    /\ (server = "stopping") ~> (task[PollTask].phase = "ended" /\ conn[PollTask] = 0)

\* the poll task was cancelled at the read of its second query and ended
C16_Witness ==
    /\ server = "stopped"
    /\ task[PollTask].phase = "ended"
    /\ log[PollTask] = <<"status?", "net_protocol?">>
    /\ s_state = TxtActive
    /\ s_proto = Unknown

\* C17. stop() completes the shutdown only after the poll task has ended,
\* the poll task exists only after the server has started, and the poll
\* task does nothing after stop() has returned.
C17_ShutdownOrdering ==
    [][/\ server' = "stopped" => task'[PollTask].phase = "ended"
       /\ task'[PollTask].phase # "idle" => server' # "init"
       /\ server = "stopped" =>
             /\ task'[PollTask] = task[PollTask]
             /\ log'[PollTask] = log[PollTask]]_vars

C17_Witness ==
    /\ server = "stopped"
    /\ task[PollTask].phase = "ended"
    /\ log[PollTask] = RefreshCmds
    /\ \E t \in Reqs : InCall(t)

\* C18. The five values are always there, each of its declared type, and
\* before start() they are "unknown", 0, "unknown", "unknown", "".
C18_FiveTypedValues ==
    /\ SensorsValid
    /\ server = "init" =>
          /\ s_state = <<"u", "n", "k", "n", "o", "w", "n">>
          /\ s_bytes = 0
          /\ s_proto = <<"u", "n", "k", "n", "o", "w", "n">>
          /\ s_nport = <<"u", "n", "k", "n", "o", "w", "n">>
          /\ s_error = << >>

\* polls and requests have written values and an error
C18_Witness ==
    /\ server = "stopped"
    /\ s_state = TxtActive
    /\ s_proto = TxtUdps
    /\ s_nport = Unknown
    /\ s_error = OSErrorText

\* C19. The status request never blocks on the device: in the step that
\* receives it, it returns ok with the line built from the current state,
\* bytes, protocol and port, passes no command to jive_cmd, opens no
\* connection and changes no value, whatever the other tasks are doing.
C19_StatusNeverBlocks ==
    [][\A t \in Reqs :
          (task[t].phase = "idle" /\ task'[t].kind = "status") =>
              /\ Done(t)'
              /\ out'[t].status = "ok"
              /\ out'[t].msg =
                    s_state \o <<" ">> \o IntToText(s_bytes) \o <<"B", " ">>
                        \o s_proto \o <<" ">> \o s_nport
              /\ log'[t] = << >>
              /\ conn' = conn
              /\ sensors' = sensors]_vars

\* the status line was returned while a query of the poll loop was in flight
C19_Witness ==
    \E t \in Reqs :
        /\ Done(t)
        /\ task[t].kind = "status"
        /\ task[PollTask].phase = "reading"
        /\ out[t].msg = TxtActive \o <<" ", "0", "B", " ">> \o TxtUdps \o <<" ">> \o Unknown

\* C20. A failed command never leaves the values partially updated: the
\* step in which a command fails changes none of state, bytes, protocol
\* and port, and the step in which a query of _poll_once gets its reply
\* stores what is derived from the reply and changes no other of them.
C20_NoPartialUpdate ==
    [][\A t \in Tasks :
          /\ \A e \in Errs :
                (task'[t] # task[t] /\ (ClosedError(t, e) \/ ConnectFail(t, e))) =>
                    /\ s_state' = s_state
                    /\ s_bytes' = s_bytes
                    /\ s_proto' = s_proto
                    /\ s_nport' = s_nport
          /\ \A r \in DeviceReplies(task[t].cmd) :
                (task'[t] # task[t] /\ task[t].stage = "refresh" /\ ClosedReply(t, r)) =>
                    /\ s_state' = IF task[t].cmd = "status?" THEN parse_status(r) ELSE s_state
                    /\ s_proto' = IF task[t].cmd = "net_protocol?" THEN parse_protocol(r) ELSE s_proto
                    /\ s_nport' = IF task[t].cmd = "net_port?" THEN parse_port(r) ELSE s_nport
                    /\ s_bytes' = s_bytes]_vars

\* a status? query failed after an earlier one had stored a state
C20_Witness ==
    /\ s_state = TxtActive
    /\ s_bytes = 0
    /\ s_error = PollErrorMsg("status?", "OSError")
    /\ task[PollTask].cmd = "net_protocol?"

\* the text in hand is the undamaged report of kind k
Intact(k) == given.kind = k /\ given.defect = "none"

\* C21. Each parser returns exactly the fields of a well-formed reply of
\* its own kind, and the fallback ("unknown", and 0 for the byte count)
\* for every damaged reply and every reply to another query.
C21_ParsersExact ==
    /\ parsed.status # << >> =>
          parsed.status = <<IF Intact("status") THEN given.field ELSE Unknown>>
    /\ parsed.protocol # << >> =>
          parsed.protocol = <<IF Intact("protocol") THEN given.field ELSE Unknown>>
    /\ parsed.port # << >> =>
          parsed.port = <<IF Intact("port") THEN given.field ELSE Unknown>>
    /\ parsed.net2file # << >> =>
          parsed.net2file =
              <<IF Intact("net2file") THEN <<given.field, given.count>> ELSE <<Unknown, 0>> >>

C23_SetPortValidation ==
    [][\A t \in Reqs :
          /\ \A destination \in {TxtPort, TxtMcastPort} :
                request_set_port(t, destination) =>
                    /\ task'[t].phase = "connecting"
                    /\ task'[t].cmd = "net_port ="
                    /\ log'[t] = <<"net_port =">>
                    /\ out'[t] = NoOut
          /\ request_set_port(t, TxtAbc) =>
                /\ Done(t)'
                /\ out'[t] = [status |-> "fail", msg |-> MsgInvalidPort]
                /\ log'[t] = << >>]_vars

\* an accepted destination has been sent and the request has returned ok
C23_Witness ==
    \E t \in Reqs :
        /\ Done(t)
        /\ task[t].kind = "set_port"
        /\ log[t] = <<"net_port =">> \o RefreshCmds
        /\ out[t] = [status |-> "ok", msg |-> Empty]

StopCmds == <<"net2file = off", "net2file = flush", "net2file = close">>

\* C24. net2file-stop issues off, flush, close in that order and then
\* the refresh, each command on a connection of its own that is opened
\* when the exchange before it has ended; when one of the three raises,
\* nothing more is issued and the request returns fail with that error.
C24_StopSequence ==
    /\ [](\A t \in Reqs :
            task[t].kind = "net2file_stop" =>
                /\ IsPrefix(log[t], StopCmds \o RefreshCmds)
                /\ conn[t] <= 1
                /\ (Done(t) /\ out[t].status = "fail") => IsPrefix(log[t], StopCmds))
    /\ [][\A t \in Reqs :
            /\ (task'[t].kind = "net2file_stop" /\ log'[t] # log[t]) =>
                  /\ conn'[t] = 0
                  /\ task'[t].phase = "connecting"
            /\ \A e \in Errs :
                  (/\ task[t].kind = "net2file_stop"
                   /\ task[t].stage = "own"
                   /\ task'[t] # task[t]
                   /\ (ClosedError(t, e) \/ ConnectFail(t, e))) =>
                      /\ Done(t)'
                      /\ out'[t] = [status |-> "fail", msg |-> ErrStr(e)]
                      /\ log'[t] = log[t]]_vars

\* off and flush were answered, close ran into its timeout
C24_Witness ==
    \E t \in Reqs :
        /\ Done(t)
        /\ task[t].kind = "net2file_stop"
        /\ log[t] = StopCmds
        /\ out[t] = [status |-> "fail", msg |-> ErrStr("TimeoutError")]

\* C25. A timeout or transport error of a query of the ad hoc refresh is
\* recorded in the Error Record and stays inside the refresh: a request
\* that reached its refresh returns ok with the empty message.
C25_RefreshErrorsAbsorbed ==
    /\ [](\A t \in Reqs :
            (task[t].kind \in StateChanging /\ CycleLog(t) # << >>) =>
                /\ out[t].status # "fail"
                /\ Done(t) => out[t] = [status |-> "ok", msg |-> Empty])
    /\ [][\A t \in Reqs, e \in Errs :
            (/\ task[t].stage = "refresh"
             /\ task'[t] # task[t]
             /\ (ClosedError(t, e) \/ ConnectFail(t, e))) =>
                /\ s_error' = PollErrorMsg(task[t].cmd, e)
                /\ out'[t].status # "fail"
                /\ IF task[t].cmd = "net_port?"
                   THEN out'[t] = [status |-> "ok", msg |-> Empty]
                   ELSE task'[t].cmd = NextRefreshCmd(task[t].cmd)]_vars

\* all three queries of the refresh of a set-protocol request failed and
\* the request has returned ok
C25_Witness ==
    \E t \in Reqs :
        /\ Done(t)
        /\ task[t].kind = "set_protocol"
        /\ log[t] = <<"net_protocol =">> \o RefreshCmds
        /\ s_state = Unknown /\ s_proto = Unknown /\ s_nport = Unknown
        /\ s_error = PollErrorMsg("net_port?", "OSError")
        /\ out[t] = [status |-> "ok", msg |-> Empty]

\* v is a field of the reply line r: it stands between " : " and " :" or " ;"
IsFieldOf(v, r) ==
    \E i \in 1..Len(r) :
        /\ HasAt(r, i, <<" ", ":", " ">> \o v \o <<" ">>)
        /\ At(r, i + Len(v) + 4, {":", ";"})

\* the task that ends query c of a refresh in this step, with reply r
EndsQueryWith(t, c, r) ==
    /\ task[t].stage = "refresh"
    /\ task[t].cmd = c
    /\ task[t].phase = "closing"
    /\ task'[t] # task[t]
    /\ r \in DeviceReplies(c)

\* v is "unknown" or a field of a reply the device gives to query c
FromQuery(v, c) == v = Unknown \/ \E r \in DeviceReplies(c) : IsFieldOf(v, r)

C27_BytesNeverWritten ==
    /\ [](s_bytes = 0)
    /\ [][s_bytes' = s_bytes]_vars

\* record-status has returned the byte count it parsed, and the status
\* query of a poll cycle was answered with a byte count
C27_Witness ==
    \E t \in Reqs :
        /\ Done(t)
        /\ task[t].kind = "record_status"
        /\ out[t] = [status |-> "ok", msg |-> TxtOn \o <<" ", "9", "9", "B">>]
        /\ s_state = TxtActive
        /\ s_bytes = 0

=============================================================================
